---- MODULE Spec2Model ----
(***************************************************************************)
(* Model of the gymnust Box space (spaces/box.rs), the seeded-generator    *)
(* helper (utils/seeding.rs) and the seeding part of State::reset          *)
(* (core.rs).                                                              *)
(*                                                                         *)
(* Numbers: a tensor element is an integer; +/-infinity are the sentinels  *)
(* Inf and NegInf, larger in magnitude than every finite element, so that  *)
(* integer comparison is float comparison on the modelled values.          *)
(* Option<T> is a record tagged "None" or "Some"; a Bound is a record      *)
(* tagged "F64" (scalar) or "Tensor" (buffer).  A tensor is a record of    *)
(* its shape, its element type and its row-major data.                     *)
(***************************************************************************)
EXTENDS Integers, Sequences, FiniteSets, TLC

(* ------------------------------ bounds --------------------------------- *)
\* largest dimension of a shape (shapes have rank 0 or 1)
MaxDim == 2
\* seeds and entropy draws range over 0..MaxSeed
MaxSeed == 1
\* length of the recorded history of rs_random calls
MaxCalls == 3

(* ------------------------------ values --------------------------------- *)
Inf == 2^30
NegInf == -Inf
\* f32 has a 24 bit significand: integers up to 2^24 are exact in f32
F32Exact == 2^24

None == [tag |-> "None"]
Some(v) == [tag |-> "Some", val |-> v]

\* element values: a value exact in f32, its successor, which is exact in
\* f64 but not in f32, and the infinity on the side of the bound
LowValues == {NegInf, F32Exact, F32Exact + 1}
HighValues == {F32Exact + 1, Inf}

Seeds == 0 .. MaxSeed

Shapes == {<<>>} \cup {<<d>> : d \in 0 .. MaxDim}

RECURSIVE elem_count(_)
elem_count(shape) ==
    IF shape = <<>> THEN 1 ELSE Head(shape) * elem_count(Tail(shape))

TensorsOf(shape, vals) ==
    {[shape |-> shape, dtype |-> "F64", data |-> d] :
        d \in [1 .. elem_count(shape) -> vals]}

\* the Bound arguments: a scalar, or a buffer of any shape
Bounds(vals) ==
    {[tag |-> "F64", val |-> v] : v \in vals}
      \cup {[tag |-> "Tensor", t |-> t] :
               t \in UNION {TensorsOf(sh, vals) : sh \in Shapes}}

DTypes == {"F32"}
Devices == {"Cpu"}

(* ----------------------------- seeding.rs ------------------------------ *)
\* Xoshiro256Plus::seed_from_u64: the generator state is a function of the
\* seed alone; a generator is identified by the seed it was derived from
\* and the number of values drawn from it since.
seed_from_u64(s) == [seed |-> s, pos |-> 0]

\* one draw from a generator (done by callers, never by this code)
Advance(g) == [g EXCEPT !.pos = @ + 1]

\* a generator its owner has built and drawn from
Generators == {Advance(seed_from_u64(0))}

SeedArgs == {None} \cup {Some([tag |-> "USize", val |-> s]) : s \in Seeds}
              \cup {Some([tag |-> "Generator", gen |-> g]) : g \in Generators}

OptSeeds == {None} \cup {Some(s) : s \in Seeds}

\* what rand::random() can yield to a Box operation given seed: it is
\* called in the None arm of rs_random only
Draws(seed) == IF seed.tag = "None" THEN Seeds ELSE {0}

\* faulty variant: the resolved seed always comes from the entropy source
rs_random_entropy(seed, entropy) ==
    [rng |-> seed_from_u64(entropy), rs_seed |-> entropy]

\* rs_random(seed): entropy is the value rand::random() yields if asked
rs_random(seed, entropy) ==
    LET rs_seed == IF seed.tag = "Some" THEN seed.val ELSE entropy
    IN  [rng |-> seed_from_u64(rs_seed), rs_seed |-> rs_seed]

(* ----------------------------- tensor ops ------------------------------ *)
\* Tensor::full of an f64 scalar
Tensor_full(v, shape) ==
    [shape |-> shape, dtype |-> "F64",
     data |-> [i \in 1 .. elem_count(shape) |-> v]]

\* elementwise t > c, as a 0/1 tensor
gt(t, c) ==
    [shape |-> t.shape, dtype |-> "U8",
     data |-> [i \in 1 .. Len(t.data) |-> IF t.data[i] > c THEN 1 ELSE 0]]

\* elementwise t < c, as a 0/1 tensor
lt(t, c) ==
    [shape |-> t.shape, dtype |-> "U8",
     data |-> [i \in 1 .. Len(t.data) |-> IF t.data[i] < c THEN 1 ELSE 0]]

Min2(a, b) == IF a <= b THEN a ELSE b
Max2(a, b) == IF a >= b THEN a ELSE b

\* elementwise min(max(t, lo), hi)
clamp(t, lo, hi) ==
    [shape |-> t.shape, dtype |-> t.dtype,
     data |-> [i \in 1 .. Len(t.data) |-> Min2(Max2(t.data[i], lo), hi)]]

\* f64 -> f32 on the modelled values: exact up to 2^24 in magnitude, above
\* that (below 2^25) rounded to the nearest multiple of 2, ties to the even
\* significand; infinities are kept
ToF32(v) ==
    LET a == IF v < 0 THEN -v ELSE v
        r == IF a = Inf \/ a <= F32Exact \/ a % 2 = 0 THEN a
             ELSE IF ((a - 1) \div 2) % 2 = 0 THEN a - 1 ELSE a + 1
    IN  IF v < 0 THEN -r ELSE r

\* Tensor::to_dtype: the elements are cast, to F32 with rounding
to_dtype(t, dtype) ==
    [shape |-> t.shape, dtype |-> dtype,
     data |-> [i \in 1 .. Len(t.data) |->
                  IF dtype = "F32" THEN ToF32(t.data[i]) ELSE t.data[i]]]

SeqMin(s) == CHOOSE m \in {s[i] : i \in 1 .. Len(s)} :
                \A i \in 1 .. Len(s) : m <= s[i]
SeqMax(s) == CHOOSE m \in {s[i] : i \in 1 .. Len(s)} :
                \A i \in 1 .. Len(s) : m >= s[i]

(* ------------------------------- box.rs -------------------------------- *)
\* _short_repr: "[]" is Empty, format!("[{}]", min) is Uniform(min) and
\* arr.to_string() is Full(arr)
ReprEmpty == [kind |-> "empty"]
ReprUniform(v) == [kind |-> "uniform", val |-> v]
ReprFull(arr) == [kind |-> "full", arr |-> arr]

_short_repr(arr) ==
    IF elem_count(arr.shape) = 0 THEN ReprEmpty
    ELSE LET flattened_arr == to_dtype(arr, "F32").data
             min == SeqMin(flattened_arr)
             max == SeqMax(flattened_arr)
         IN  IF min = max THEN ReprUniform(min) ELSE ReprFull(arr)

_broadcast(value) == clamp(value, NegInf, Inf)

Panic(msg) == [kind |-> "panic", msg |-> msg]

\* faulty variant: a scalar high without an explicit shape is accepted, and the
\* shape is taken from low without comparing it to high's
resolve_shape_lax(low, high, shape) ==
    IF shape.tag = "Some" THEN [kind |-> "ok", shape |-> shape.val]
    ELSE IF low.tag = "F64" THEN Panic("Low must be a tensor")
    ELSE [kind |-> "ok", shape |-> low.t.shape]

\* Box::new, "Determine the shape if it is not provided directly"
resolve_shape(low, high, shape) ==
    IF shape.tag = "Some" THEN [kind |-> "ok", shape |-> shape.val]
    ELSE IF low.tag = "F64" THEN Panic("Low must be a tensor")
    ELSE IF high.tag = "F64" THEN Panic("High must be a tensor")
    ELSE IF low.t.shape # high.t.shape
         THEN Panic("Low and high must have the same shape")
    ELSE [kind |-> "ok", shape |-> low.t.shape]

\* faulty variant: boundedness captured from a buffer whose infinities were
\* already replaced by finite extremes
bounded_below_of_clamped(_low, dtype) ==
    to_dtype(gt(clamp(_low, -(F32Exact + 2), F32Exact + 2), NegInf), dtype)

bounded_below_of(_low, dtype) == to_dtype(gt(_low, NegInf), dtype)

bounded_above_of(_high, dtype) == to_dtype(lt(_high, Inf), dtype)

Box_new(low, high, shape, dtype, seed, device, entropy) ==
    LET dev == IF device.tag = "Some" THEN device.val ELSE "Cpu"
        res == resolve_shape(low, high, shape)
    IN  IF res.kind = "panic" THEN res
        ELSE
        LET sh == res.shape
            _low == IF low.tag = "F64" THEN Tensor_full(low.val, sh)
                    ELSE low.t
            bounded_below == bounded_below_of(_low, dtype)
            _high == IF high.tag = "F64" THEN Tensor_full(high.val, sh)
                     ELSE high.t
            bounded_above == bounded_above_of(_high, dtype)
            _rs_random ==
                IF seed.tag = "Some"
                THEN IF seed.val.tag = "USize"
                     THEN rs_random(Some(seed.val.val), entropy).rng
                     ELSE seed.val.gen
                ELSE rs_random(None, entropy).rng
        IN  [kind |-> "ok",
             box |-> [shape |-> Some(sh),
                      dtype |-> dtype,
                      rs_random |-> _rs_random,
                      device |-> Some(dev),
                      low |-> _broadcast(_low),
                      high |-> _broadcast(_high),
                      low_repr |-> _short_repr(_low),
                      high_repr |-> _short_repr(_high),
                      bounded_below |-> bounded_below,
                      bounded_above |-> bounded_above]]

\* faulty variant: the old generator is kept, only the seed is reported
Box_seed_keep(b, seed, entropy) ==
    [box |-> b, ret |-> <<rs_random(seed, entropy).rs_seed>>]

\* faulty variant: reseeding also forgets the shape
Box_seed_reshape(b, seed, entropy) ==
    LET r == rs_random(seed, entropy)
    IN  [box |-> [b EXCEPT !.rs_random = r.rng, !.shape = None],
         ret |-> <<r.rs_seed>>]

\* Box::seed
Box_seed(b, seed, entropy) ==
    LET r == rs_random(seed, entropy)
    IN  [box |-> [b EXCEPT !.rs_random = r.rng], ret |-> <<r.rs_seed>>]

\* Box::contains
Box_contains(b, x) == TRUE

\* Box::is_flattenable
Box_is_flattenable(b) == TRUE

(* ------------------------------- state --------------------------------- *)
VARIABLES
    pc,       \* "start", "live" (a Box exists) or "aborted" (a panic)
    args,     \* the low, high, shape and seed Box::new was called with
    box,      \* the Box
    last,     \* the last Box operation: its name, argument and outcome
    env,      \* the State of core.rs: _rs_random and _rs_random_seed
    envpc,    \* "ready" or "panicked"
    envseed,  \* the seed argument of the reset call made
    calls     \* the rs_random calls made so far, in order

vars == <<pc, args, box, last, env, envpc, envseed, calls>>

boxvars == <<pc, args, box, last>>
envvars == <<env, envpc, envseed, calls>>

NoBox == [tag |-> "NoBox"]
NoArgs == [tag |-> "NoArgs"]
NoOp == [op |-> "none"]

Env0 == [_rs_random |-> None, _rs_random_seed |-> None]

\* the states a State can be built in: with or without a generator
Envs == [_rs_random : {None} \cup {Some(g) : g \in Generators},
         _rs_random_seed : OptSeeds]

Init ==
    /\ pc = "start"
    /\ args = NoArgs
    /\ box = NoBox
    /\ last = NoOp
    /\ env = Env0
    /\ envpc = "ready"
    /\ envseed = None
    /\ calls = <<>>

InitEnv ==
    /\ pc = "start"
    /\ args = NoArgs
    /\ box = NoBox
    /\ last = NoOp
    /\ env \in Envs
    /\ envpc = "ready"
    /\ envseed = None
    /\ calls = <<>>

(* ------------------------------ actions -------------------------------- *)
New ==
    /\ pc = "start"
    /\ \E low \in Bounds(LowValues), high \in Bounds(HighValues),
          shape \in {None} \cup {Some(s) : s \in Shapes},
          dtype \in DTypes, seed \in SeedArgs,
          device \in {None} \cup {Some(d) : d \in Devices} :
       \E entropy \in Draws(seed) :
         LET r == Box_new(low, high, shape, dtype, seed, device, entropy)
         IN  /\ args' = [low |-> low, high |-> high, shape |-> shape,
                         seed |-> seed]
             /\ IF r.kind = "panic"
                THEN /\ pc' = "aborted"
                     /\ box' = NoBox
                     /\ last' = [op |-> "new", ret |-> r]
                ELSE /\ pc' = "live"
                     /\ box' = r.box
                     /\ last' = [op |-> "new", ret |-> [kind |-> "ok"]]
    /\ UNCHANGED envvars

Seed ==
    /\ pc = "live"
    /\ \E seed \in OptSeeds :
       \E entropy \in Draws(seed) :
         LET r == Box_seed(box, seed, entropy)
         IN  /\ box' = r.box
             /\ last' = [op |-> "seed", seed |-> seed,
                         ret |-> [kind |-> "value", val |-> r.ret]]
    /\ UNCHANGED <<pc, args>>
    /\ UNCHANGED envvars

\* Box::sample is todo!(): it panics whatever the mask
Sample ==
    /\ pc = "live"
    /\ \E mask \in {None} \cup {Some(m) : m \in {0, 1}} :
         last' = [op |-> "sample", ret |-> Panic("not yet implemented")]
    /\ pc' = "aborted"
    /\ UNCHANGED <<args, box>>
    /\ UNCHANGED envvars

Contains ==
    /\ pc = "live"
    /\ \E x \in HighValues :
         last' = [op |-> "contains",
                  ret |-> [kind |-> "value", val |-> Box_contains(box, x)]]
    /\ UNCHANGED <<pc, args, box>>
    /\ UNCHANGED envvars

IsFlattenable ==
    /\ pc = "live"
    /\ last' = [op |-> "is_flattenable",
                ret |-> [kind |-> "value", val |-> Box_is_flattenable(box)]]
    /\ UNCHANGED <<pc, args, box>>
    /\ UNCHANGED envvars

\* a call of rs_random, recorded with what it returned
RsRandomCall ==
    /\ envpc = "ready"
    /\ Len(calls) < MaxCalls
    /\ \E seed \in OptSeeds, entropy \in Seeds :
         LET r == rs_random(seed, entropy)
         IN  calls' = Append(calls, [seed |-> seed, rng |-> r.rng,
                                     rs_seed |-> r.rs_seed])
    /\ UNCHANGED <<env, envpc, envseed>>
    /\ UNCHANGED boxvars

\* State::reset: both fields are assigned, then todo!() panics
State_reset(e, seed, entropy) ==
    LET r == rs_random(seed, entropy)
    IN  [e EXCEPT !._rs_random = Some(r.rng),
                  !._rs_random_seed = Some(r.rs_seed)]

Reset ==
    /\ envpc = "ready"
    /\ \E seed \in OptSeeds, entropy \in Seeds :
         /\ env' = State_reset(env, seed, entropy)
         /\ envseed' = seed
    /\ envpc' = "panicked"
    /\ UNCHANGED calls
    /\ UNCHANGED boxvars

Next == New \/ Seed \/ Sample \/ Contains \/ IsFlattenable

NextEnv == RsRandomCall \/ Reset

Spec == Init /\ [][Next]_vars

SpecEnv == InitEnv /\ [][NextEnv]_vars

(* ------------------------------- claims -------------------------------- *)
\* the value the caller supplied for position i of a bound
Supplied(bound, i) == IF bound.tag = "F64" THEN bound.val ELSE bound.t.data[i]

Positions(t) == 1 .. Len(t.data)

\* C1: every Box returned by Box::new has low.shape = high.shape = shape
C1_ShapeInvariant ==
    pc = "live" =>
        /\ box.shape = Some(box.low.shape)
        /\ box.high.shape = box.low.shape

\* C2: bounded_below[i] is set iff the low value the caller supplied at i
\* is above -infinity, bounded_above[i] iff the supplied high value is
\* below +infinity
C2_Boundedness ==
    pc = "live" =>
        /\ args.low.tag = "Tensor" =>
               Len(box.bounded_below.data) = Len(args.low.t.data)
        /\ args.high.tag = "Tensor" =>
               Len(box.bounded_above.data) = Len(args.high.t.data)
        /\ \A i \in Positions(box.bounded_below) :
               (box.bounded_below.data[i] = 1) <=> (Supplied(args.low, i) > NegInf)
        /\ \A i \in Positions(box.bounded_above) :
               (box.bounded_above.data[i] = 1) <=> (Supplied(args.high, i) < Inf)

\* a Box built from a low buffer holding -infinity next to a finite value,
\* with the flags telling them apart
C2_Witness ==
    /\ pc = "live"
    /\ args.low.tag = "Tensor"
    /\ \E i, j \in Positions(box.bounded_below) :
          /\ args.low.t.data[i] = NegInf
          /\ box.bounded_below.data[i] = 0
          /\ args.low.t.data[j] > NegInf
          /\ box.bounded_below.data[j] = 1

\* C3: no element of the stored low or high buffer is +infinity or
\* -infinity
C3_NoInfinities ==
    pc = "live" =>
        /\ \A i \in Positions(box.low) : box.low.data[i] \notin {NegInf, Inf}
        /\ \A i \in Positions(box.high) : box.high.data[i] \notin {NegInf, Inf}

\* C4: without an explicit shape, a scalar low or high, or two buffers of
\* different shapes, abort construction and leave no Box
C4_AbortWithoutShape ==
    (/\ pc # "start"
     /\ args.shape = None
     /\ \/ args.low.tag = "F64"
        \/ args.high.tag = "F64"
        \/ args.low.t.shape # args.high.t.shape)
    => /\ pc = "aborted"
       /\ box = NoBox
       /\ last.op = "new"
       /\ last.ret.kind = "panic"

\* construction aborted on two buffers of different shapes
C4_Witness ==
    /\ pc = "aborted"
    /\ last.op = "new"
    /\ args.shape = None
    /\ args.low.tag = "Tensor"
    /\ args.high.tag = "Tensor"
    /\ args.low.t.shape # args.high.t.shape
    /\ box = NoBox

\* C5: sample and contains always panic and never return a value
C5_FailLoud ==
    last.op \in {"sample", "contains"} => last.ret.kind = "panic"

\* C6: seed(x) returns a one-element list [r], with r = s when x = Some(s),
\* and leaves the Box's generator equal to the one derived from r alone
C6_Reseed ==
    last.op = "seed" =>
        /\ Len(last.ret.val) = 1
        /\ last.seed.tag = "Some" => last.ret.val[1] = last.seed.val
        /\ box.rs_random = seed_from_u64(last.ret.val[1])

\* a Box built around a caller's generator has been reseeded
C6_Witness ==
    /\ last.op = "seed"
    /\ args.seed.tag = "Some"
    /\ args.seed.val.tag = "Generator"
    /\ box.rs_random # args.seed.val.gen

\* C7: rs_random(Some(s)) resolves to s, and all calls with the same s
\* return equal generators, whatever was called in between
C7_Deterministic ==
    \A i \in 1 .. Len(calls) :
        calls[i].seed.tag = "Some" =>
            /\ calls[i].rs_seed = calls[i].seed.val
            /\ \A j \in 1 .. Len(calls) :
                   calls[j].seed = calls[i].seed => calls[j].rng = calls[i].rng

\* two calls with the same seed around an unseeded call that drew another
C7_Witness ==
    /\ Len(calls) >= 3
    /\ calls[1].seed.tag = "Some"
    /\ calls[2].seed.tag = "None"
    /\ calls[2].rs_seed # calls[1].rs_seed
    /\ calls[3].seed = calls[1].seed

\* the summary C8 describes
AllEqual(t) == \A i, j \in Positions(t) : t.data[i] = t.data[j]

Summary(t) ==
    IF Len(t.data) = 0 THEN ReprEmpty
    ELSE IF AllEqual(t) THEN ReprUniform(t.data[1])
    ELSE ReprFull(t)

\* C8: low_repr and high_repr are "[]" for an empty buffer, "[v]" when all
\* elements equal v, and the full form when two elements differ
C8_Summary ==
    pc = "live" =>
        /\ box.low_repr = Summary(box.low)
        /\ box.high_repr = Summary(box.high)

\* C9: reset(None) on an environment that has a generator changes neither
\* the generator nor the recorded seed
C9_KeepOnNone ==
    [][(/\ envpc = "ready"
        /\ envpc' = "panicked"
        /\ envseed' = None
        /\ env._rs_random.tag = "Some") => env' = env]_vars

\* everything of a Box but its generator
Frame(b) == [f \in DOMAIN b \ {"rs_random"} |-> b[f]]

\* C10: no operation after construction changes shape, dtype, device, low,
\* high, low_repr, high_repr, bounded_below or bounded_above
C10_Immutable ==
    [][pc = "live" => Frame(box') = Frame(box)]_vars

\* a reseeded Box whose generator differs from the one it was built with
C10_Witness ==
    /\ pc = "live"
    /\ last.op = "seed"
    /\ args.seed.tag = "Some"
    /\ args.seed.val.tag = "USize"
    /\ box.rs_random # seed_from_u64(args.seed.val.val)
    /\ box.shape.tag = "Some"

====
